---- MODULE Spec2Model ----
(***************************************************************************)
(* Device automation discovery of Home Assistant                           *)
(* (homeassistant/components/device_automation/__init__.py).               *)
(*                                                                         *)
(* A websocket command names a device; the handler builds the set of       *)
(* domains of the device, starts one fetch task per domain with            *)
(* asyncio.gather, and sends the concatenation of the non-None results.    *)
(* One action of this module is one run of a coroutine between two         *)
(* suspension points of the event loop.                                    *)
(***************************************************************************)
EXTENDS Integers, Sequences, FiniteSets, Bags, TLC

\* Number of commands the client sends in one behaviour.
MaxRequests == 1

(***************************************************************************)
(* Values                                                                  *)
(***************************************************************************)
\* The three listing operations a device_automation platform may define.
FNames == {"async_get_actions", "async_get_conditions", "async_get_triggers"}

\* The three command types registered by async_setup.
CommandTypes ==
  { "device_automation/action/list",
    "device_automation/condition/list",
    "device_automation/trigger/list" }

DeviceIds == {"D", "D0", "D2", "D3", "D4", "D5"}

\* A Python value that is either None or a list.
None == [is_none |-> TRUE, items |-> <<>>]
List(s) == [is_none |-> FALSE, items |-> s]

\* An automation descriptor, as the platforms build it.
Desc(domain, device_id, type) ==
  [domain |-> domain, device_id |-> device_id, type |-> type]

Range(s) == {s[i] : i \in 1..Len(s)}

(***************************************************************************)
(* External collaborators: the loader and the platforms                    *)
(***************************************************************************)
\* async_get_integration(hass, domain): the integration, or IntegrationNotFound.
\* integration.get_platform("device_automation"): the module, or ImportError.
Loader(domain) ==
  CASE domain = "ghost" -> "IntegrationNotFound"
    [] domain = "alarm" -> "ImportError"
    [] OTHER            -> "platform"

\* hasattr(platform, fname)
PlatformAttrs(domain) ==
  CASE domain = "light"   -> {"async_get_actions", "async_get_triggers"}
    [] domain = "sensor"  -> FNames
    [] domain = "climate" -> FNames
    [] OTHER              -> {}

\* What awaiting getattr(platform, fname)(hass, device_id) ends in.
Returns(s) == [raises |-> FALSE, value |-> List(s), exc |-> ""]
Raises(e) == [raises |-> TRUE, value |-> None, exc |-> e]

PluginListing(domain, fname, device_id) ==
  CASE domain = "light" /\ fname = "async_get_actions" ->
         Returns(<< Desc("light", device_id, "turn_on"),
                    Desc("light", device_id, "turn_off") >>)
    [] domain = "sensor" /\ fname = "async_get_actions" ->
         Returns(<< Desc("sensor", device_id, "calibrate") >>)
    [] domain = "light" /\ fname = "async_get_triggers" ->
         Returns(<< Desc("light", device_id, "turned_on") >>)
    [] domain = "sensor" /\ fname = "async_get_triggers" ->
         Returns(<< >>)
    [] domain = "sensor" /\ fname = "async_get_conditions" ->
         Returns(<< Desc("sensor", device_id, "is_temperature"),
                    Desc("sensor", device_id, "is_temperature") >>)
    [] domain = "climate" /\ fname = "async_get_actions" ->
         Returns(<< Desc("climate", device_id, "set_hvac_mode") >>)
    [] domain = "climate" /\ fname = "async_get_triggers" ->
         Returns(<< Desc("climate", device_id, "hvac_mode_changed"),
                    Desc("climate", device_id, "turned_on") >>)
    [] domain = "climate" /\ fname = "async_get_conditions" ->
         Raises("HomeAssistantError")
    [] OTHER -> Returns(<< >>)

(***************************************************************************)
(* External collaborators: the registries                                  *)
(***************************************************************************)
\* hass.config_entries: entry id -> config entry.
InitConfigEntries ==
  [e \in {"e_alarm", "e_light", "e_climate", "e_climate2"} |->
     [domain |-> CASE e = "e_alarm" -> "alarm"
                   [] e = "e_light" -> "light"
                   [] OTHER         -> "climate"]]

\* The device registry: device id -> device.  "D2" is not registered.
InitDeviceRegistry ==
  [d \in {"D", "D0", "D3", "D4", "D5"} |->
     [config_entries |->
        CASE d = "D"  -> {"e_alarm", "e_light"}
          [] d = "D3" -> {"e_climate"}
          [] d = "D4" -> {"e_climate"}
          [] d = "D5" -> {"e_climate", "e_climate2"}
          [] OTHER    -> {}]]

\* The entity registry.  An entity id is the sequence of its maximal
\* dot-free parts and the dots between them.
InitEntityRegistry ==
  { [entity_id |-> <<"sensor", ".", "outside_temp">>, device_id |-> "D"],
    [entity_id |-> <<"sensor", ".", "hall_temp">>,    device_id |-> "D4"],
    [entity_id |-> <<"climate", ".", "hall">>,        device_id |-> "D4"],
    [entity_id |-> <<"climate", ".", "kitchen">>,     device_id |-> "D5"],
    [entity_id |-> <<"ghost", ".", "relay">>,         device_id |-> "D5"] }

VARIABLES
  device_registry,  \* device id -> device (its config_entries)
  entity_registry,  \* set of entity entries
  config_entries,   \* entry id -> config entry (its domain)
  msgs,             \* command id -> the command the client sends
  pc,               \* command id -> position of its handler
  regs,             \* command id -> registries obtained by the first gather
  fetch,            \* command id -> the fetch tasks, in fan-out order
  outer,            \* command id -> the future of the second gather
  error,            \* command id -> exception the handler raised ("" if none)
  sent,             \* command id -> messages sent on the connection
  reordered,        \* command id -> a fetch ended before one that precedes it
  log,              \* bag of domains warned about
  calls             \* external calls made so far

vars == << device_registry, entity_registry, config_entries, msgs, pc, regs,
           fetch, outer, reordered, error, sent, log, calls >>

env == << device_registry, entity_registry, config_entries, msgs >>

Ids == DOMAIN msgs

(***************************************************************************)
(* Pure helpers                                                            *)
(***************************************************************************)
\* Variant of SetAdd: the domains are collected in a list.
ListAdd(container, x) == Append(container, x)

\* A Python set as a container: add() keeps one copy of each element.
\* The order of the container is not the iteration order (see Enumerations).
SetAdd(container, x) ==
  IF x \in Range(container) THEN container ELSE Append(container, x)

\* Some order in which a for loop visits a collection.
RECURSIVE Visit(_)
Visit(S) ==
  IF S = {} THEN << >>
  ELSE LET x == CHOOSE y \in S : TRUE IN << x >> \o Visit(S \ {x})

\* split_entity_id: entity_id.split(".", 1)
FirstDot(entity_id) ==
  CHOOSE i \in 1..Len(entity_id) :
    entity_id[i] = "." /\ \A j \in 1..(i - 1) : entity_id[j] # "."

split_entity_id(entity_id) ==
  << SubSeq(entity_id, 1, FirstDot(entity_id) - 1),
     SubSeq(entity_id, FirstDot(entity_id) + 1, Len(entity_id)) >>

\* async_entries_for_device(registry, device_id)
async_entries_for_device(registry, device_id) ==
  {entry \in registry : entry.device_id = device_id}

\* Lines 78-80: domains.add(config_entry.domain) for every entry of the device.
RECURSIVE AddEntryDomains(_, _, _)
AddEntryDomains(container, entry_ids, entries) ==
  IF entry_ids = << >> THEN container
  ELSE AddEntryDomains(SetAdd(container, entries[Head(entry_ids)].domain),
                       Tail(entry_ids), entries)

\* Lines 82-84: domains.add(split_entity_id(entity.entity_id)[0]).
RECURSIVE AddEntityDomains(_, _)
AddEntityDomains(container, entities) ==
  IF entities = << >> THEN container
  ELSE AddEntityDomains(
         SetAdd(container, Head(split_entity_id(Head(entities).entity_id)[1])),
         Tail(entities))

\* Variant of DomainSet: the entities of the device are not visited.
DomainSetEntriesOnly(device, device_id, entries, registry) ==
  AddEntryDomains(<< >>, Visit(device.config_entries), entries)

\* Lines 75-84: the domain set of a device that is in the registry.
DomainSet(device, device_id, entries, registry) ==
  AddEntityDomains(
    AddEntryDomains(<< >>, Visit(device.config_entries), entries),
    Visit(async_entries_for_device(registry, device_id)))

\* "for domain in domains": a set is iterated in an order the program does
\* not control; every order of the container is possible.
Enumerations(container) ==
  { [i \in 1..Len(container) |-> container[p[i]]] :
      p \in Permutations(1..Len(container)) }

\* Variant of Merge: the loop ends at the first None instead of skipping it.
RECURSIVE MergeUntilNone(_)
MergeUntilNone(device_automations) ==
  IF device_automations = << >> THEN << >>
  ELSE LET first == Head(device_automations) IN
       IF first.is_none THEN << >>
       ELSE first.items \o MergeUntilNone(Tail(device_automations))

\* Lines 92-94: extend automations with every result that is not None.
RECURSIVE Merge(_)
Merge(device_automations) ==
  IF device_automations = << >> THEN << >>
  ELSE LET first == Head(device_automations) IN
       (IF first.is_none THEN << >> ELSE first.items)
         \o Merge(Tail(device_automations))

\* Variant of HandlerFName: the condition handler, written as a copy of the
\* trigger handler, still passes "async_get_triggers".
HandlerFNameCopied(type) ==
  CASE type = "device_automation/action/list"    -> "async_get_actions"
    [] type = "device_automation/condition/list" -> "async_get_triggers"
    [] type = "device_automation/trigger/list"   -> "async_get_triggers"

\* The fname each handler passes to _async_get_device_automations.
HandlerFName(type) ==
  CASE type = "device_automation/action/list"    -> "async_get_actions"
    [] type = "device_automation/condition/list" -> "async_get_conditions"
    [] type = "device_automation/trigger/list"   -> "async_get_triggers"

\* Variant of FetchOutcome: IntegrationNotFound is not caught.
FetchOutcomeNoExcept(domain, fname) ==
  IF Loader(domain) = "IntegrationNotFound"
    THEN [do |-> "raise", warn |-> FALSE, exc |-> "IntegrationNotFound"]
  ELSE IF Loader(domain) = "ImportError"
    THEN [do |-> "return_none", warn |-> FALSE, exc |-> ""]
  ELSE IF fname \in PlatformAttrs(domain)
    THEN [do |-> "call", warn |-> FALSE, exc |-> ""]
  ELSE [do |-> "return_none", warn |-> FALSE, exc |-> ""]

\* Variant of FetchOutcome: the warning is logged for ImportError as well.
FetchOutcomeWarnsImportError(domain, fname) ==
  IF Loader(domain) = "IntegrationNotFound"
    THEN [do |-> "return_none", warn |-> TRUE, exc |-> ""]
  ELSE IF Loader(domain) = "ImportError"
    THEN [do |-> "return_none", warn |-> TRUE, exc |-> ""]
  ELSE IF Loader(domain) # "platform"
    THEN [do |-> "raise", warn |-> FALSE, exc |-> Loader(domain)]
  ELSE IF fname \in PlatformAttrs(domain)
    THEN [do |-> "call", warn |-> FALSE, exc |-> ""]
  ELSE [do |-> "return_none", warn |-> FALSE, exc |-> ""]

\* Variant of FetchOutcome: the listing operation is taken from the platform
\* without the hasattr test, so a platform without it raises AttributeError.
FetchOutcomeNoHasattr(domain, fname) ==
  IF Loader(domain) = "IntegrationNotFound"
    THEN [do |-> "return_none", warn |-> TRUE, exc |-> ""]
  ELSE IF Loader(domain) = "ImportError"
    THEN [do |-> "return_none", warn |-> FALSE, exc |-> ""]
  ELSE IF Loader(domain) # "platform"
    THEN [do |-> "raise", warn |-> FALSE, exc |-> Loader(domain)]
  ELSE IF fname \in PlatformAttrs(domain)
    THEN [do |-> "call", warn |-> FALSE, exc |-> ""]
  ELSE [do |-> "raise", warn |-> FALSE, exc |-> "AttributeError"]

\* Lines 51-65 once async_get_integration has completed: what the fetch of
\* a domain does next.  An exception that no except clause names leaves the
\* coroutine.
FetchOutcome(domain, fname) ==
  IF Loader(domain) = "IntegrationNotFound"
    THEN [do |-> "return_none", warn |-> TRUE, exc |-> ""]
  ELSE IF Loader(domain) = "ImportError"
    THEN [do |-> "return_none", warn |-> FALSE, exc |-> ""]
  ELSE IF Loader(domain) # "platform"
    THEN [do |-> "raise", warn |-> FALSE, exc |-> Loader(domain)]
  ELSE IF fname \in PlatformAttrs(domain)
    THEN [do |-> "call", warn |-> FALSE, exc |-> ""]
  ELSE [do |-> "return_none", warn |-> FALSE, exc |-> ""]

Finished(task) == task.pc \in {"returned", "raised"}

Pending == [state |-> "pending", results |-> << >>, exc |-> ""]

\* Variant of Gather: asyncio.wait, which rejects an empty set.
GatherWait(n) ==
  IF n = 0 THEN [state |-> "exception", results |-> << >>, exc |-> "ValueError"]
  ELSE [state |-> "pending", results |-> << >>, exc |-> ""]

\* asyncio.gather(*aws): the outer future.  With no awaitable it is done at
\* once with the empty list.
Gather(n) ==
  IF n = 0 THEN [state |-> "result", results |-> << >>, exc |-> ""]
  ELSE Pending

\* Variant of GatherCallback: the exception of a child is dropped and the
\* child counts as having returned None.
GatherCallbackSwallow(o, tasks, i) ==
  IF o.state # "pending" THEN o
  ELSE IF \A j \in 1..Len(tasks) : tasks[j].pc \in {"returned", "raised"}
    THEN [state |-> "result",
          results |-> [j \in 1..Len(tasks) |-> tasks[j].result],
          exc |-> ""]
  ELSE o

\* Variant of GatherCallback: the outer future completes with the first
\* child that returns.
GatherCallbackFirstCompleted(o, tasks, i) ==
  IF o.state # "pending" THEN o
  ELSE IF tasks[i].pc = "raised"
    THEN [state |-> "exception", results |-> << >>, exc |-> tasks[i].exc]
  ELSE [state |-> "result",
        results |-> [j \in 1..Len(tasks) |-> tasks[j].result],
        exc |-> ""]

\* Variant of GatherCallback: the results are collected in the order in
\* which the children end.
GatherCallbackCompletionOrder(o, tasks, i) ==
  IF o.state # "pending" THEN o
  ELSE IF tasks[i].pc = "raised"
    THEN [state |-> "exception", results |-> << >>, exc |-> tasks[i].exc]
  ELSE [state |-> IF \A j \in 1..Len(tasks) : tasks[j].pc \in {"returned", "raised"}
                    THEN "result" ELSE "pending",
        results |-> Append(o.results, tasks[i].result),
        exc |-> ""]

\* Variant of GatherCallback: the outer future is given its result by the
\* callback of the last awaitable only, as if that one always ended last.
GatherCallbackOfLast(o, tasks, i) ==
  IF o.state # "pending" THEN o
  ELSE IF tasks[i].pc = "raised"
    THEN [state |-> "exception", results |-> << >>, exc |-> tasks[i].exc]
  ELSE IF i = Len(tasks) /\ \A j \in 1..Len(tasks) : Finished(tasks[j])
    THEN [state |-> "result",
          results |-> [j \in 1..Len(tasks) |-> tasks[j].result],
          exc |-> ""]
  ELSE o

\* asyncio.gather without return_exceptions: the callback run when child i
\* is done.  The first exception of a child completes the outer future at
\* once; otherwise it completes when the last child is done, with the
\* results in the order of the awaitables.
GatherCallback(o, tasks, i) ==
  IF o.state # "pending" THEN o
  ELSE IF tasks[i].pc = "raised"
    THEN [state |-> "exception", results |-> << >>, exc |-> tasks[i].exc]
  ELSE IF \A j \in 1..Len(tasks) : Finished(tasks[j])
    THEN [state |-> "result",
          results |-> [j \in 1..Len(tasks) |-> tasks[j].result],
          exc |-> ""]
  ELSE o

\* Task i ends while a task before it in the fan-out is still running.
Overtakes(tasks, i) == \E j \in 1..(i - 1) : ~Finished(tasks[j])

NewTask(domain) ==
  [domain |-> domain, pc |-> "resolving", result |-> None, exc |-> ""]

\* connection.send_result(msg["id"], result)
ResultMessage(id, result) ==
  [id |-> id, type |-> "result", success |-> TRUE, result |-> result,
   error |-> ""]

\* The error message of the websocket API for an exception of a handler.
ErrorMessage(id, exc) ==
  [id |-> id, type |-> "result", success |-> FALSE, result |-> << >>,
   error |-> exc]

(***************************************************************************)
(* Initial state                                                           *)
(***************************************************************************)
Commands(n) ==
  [1..n -> [type : CommandTypes, device_id : DeviceIds]]

Init ==
  /\ device_registry = InitDeviceRegistry
  /\ entity_registry = InitEntityRegistry
  /\ config_entries = InitConfigEntries
  /\ \E n \in 1..MaxRequests : msgs \in Commands(n)
  /\ pc = [id \in Ids |-> "received"]
  /\ regs = [id \in Ids |-> {}]
  /\ fetch = [id \in Ids |-> << >>]
  /\ outer = [id \in Ids |-> Pending]
  /\ reordered = [id \in Ids |-> FALSE]
  /\ error = [id \in Ids |-> ""]
  /\ sent = [id \in Ids |-> << >>]
  /\ log = EmptyBag
  /\ calls = {}

(***************************************************************************)
(* Actions                                                                 *)
(***************************************************************************)
\* Lines 106-109 and 70-73: the handler starts and awaits the two
\* async_get_registry calls.
HandlerStart(id) ==
  /\ pc[id] = "received"
  /\ pc' = [pc EXCEPT ![id] = "registries"]
  /\ UNCHANGED << env, regs, fetch, outer, reordered, error, sent, log, calls >>

\* One of the two async_get_registry calls completes.
RegistryLoaded(id, which) ==
  /\ pc[id] = "registries"
  /\ which \notin regs[id]
  /\ regs' = [regs EXCEPT ![id] = @ \cup {which}]
  /\ UNCHANGED << env, pc, fetch, outer, reordered, error, sent, log, calls >>

\* Variant of AfterGather: the result is sent in a finally clause.
AfterGatherFinally(id, o) ==
  IF o.state = "exception"
    THEN /\ pc' = [pc EXCEPT ![id] = "raised"]
         /\ error' = [error EXCEPT ![id] = o.exc]
         /\ sent' = [sent EXCEPT ![id] =
                       Append(@, [id |-> id, type |-> "result", success |-> TRUE,
                                  result |-> << >>, error |-> ""])]
    ELSE /\ pc' = [pc EXCEPT ![id] = "done"]
         /\ sent' = [sent EXCEPT ![id] =
                       Append(@, [id |-> id, type |-> "result", success |-> TRUE,
                                  result |-> Merge(o.results), error |-> ""])]
         /\ error' = error

\* Variant of AfterGather: automations is one list of the module, shared by
\* the commands, so a list sent starts with the list sent before it.
AfterGatherSharedList(id, o) ==
  IF o.state = "exception"
    THEN /\ pc' = [pc EXCEPT ![id] = "raised"]
         /\ error' = [error EXCEPT ![id] = o.exc]
         /\ sent' = sent
    ELSE LET others == {j \in Ids : j # id /\ pc[j] = "done"}
             automations == IF others = {} THEN << >>
                            ELSE sent[CHOOSE j \in others : TRUE][1].result
         IN
         /\ pc' = [pc EXCEPT ![id] = "done"]
         /\ sent' = [sent EXCEPT ![id] =
                       Append(@, ResultMessage(id,
                                   automations \o Merge(o.results)))]
         /\ error' = error

\* Lines 92-96 and 110 (and the two other handlers): the gather is done; the
\* handler raises its exception, or merges its results and sends them.
AfterGather(id, o) ==
  IF o.state = "exception"
    THEN /\ pc' = [pc EXCEPT ![id] = "raised"]
         /\ error' = [error EXCEPT ![id] = o.exc]
         /\ sent' = sent
    ELSE /\ pc' = [pc EXCEPT ![id] = "done"]
         /\ sent' = [sent EXCEPT ![id] =
                       Append(@, ResultMessage(id, Merge(o.results)))]
         /\ error' = error

\* Variant of RegistryGatherDone: the handler goes on when the first of the
\* two registries is there.
RegistryGatherFirstDone(loaded) == loaded # {}

\* Lines 70-73: the gather of the two async_get_registry calls is done when
\* both have completed.
RegistryGatherDone(loaded) == loaded = {"device_registry", "entity_registry"}

\* Variant of RegistriesRead: the loop of lines 78-80 takes the config
\* entries out of the device with pop().
RegistriesReadPopping(device_id) ==
  /\ device_registry' =
       IF device_id \in DOMAIN device_registry
         THEN [device_registry EXCEPT ![device_id].config_entries = {}]
         ELSE device_registry
  /\ UNCHANGED << entity_registry, config_entries >>

\* Lines 77-84: async_get, async_get_entry and async_entries_for_device are
\* lookups, and the loops only read what they return.
RegistriesRead(device_id) ==
  UNCHANGED << device_registry, entity_registry, config_entries >>

\* Lines 75-91: the first gather is done; look the device up, build the
\* domain set and start the fan-out.  gather() schedules one task per
\* domain; their first steps run back to back, each up to its await of
\* async_get_integration (line 53), before any other callback of this
\* command, so they are part of this action.  A gather that is done at once
\* does not suspend the handler.
FanOut(id) ==
  LET device_id == msgs[id].device_id IN
  /\ pc[id] = "registries"
  /\ RegistryGatherDone(regs[id])
  /\ IF device_id \notin DOMAIN device_registry
       THEN \* device is None: device.config_entries raises
            /\ pc' = [pc EXCEPT ![id] = "raised"]
            /\ error' = [error EXCEPT ![id] = "AttributeError"]
            /\ UNCHANGED << fetch, outer, sent, calls >>
       ELSE LET device == device_registry[device_id]
                domains == DomainSet(device, device_id, config_entries,
                                     entity_registry)
                lookups == { [op |-> "async_get_entry", id |-> id,
                              entry |-> e, task |-> 0,
                              domain |-> config_entries[e].domain,
                              device_id |-> device_id] :
                             e \in device.config_entries }
            IN
            \E order \in Enumerations(domains) :
              /\ fetch' = [fetch EXCEPT ![id] =
                             [i \in 1..Len(order) |-> NewTask(order[i])]]
              /\ calls' = calls \cup lookups \cup
                   { [op |-> "async_get_integration", id |-> id,
                      entry |-> "", task |-> i, domain |-> order[i],
                      device_id |-> device_id] : i \in 1..Len(order) }
              /\ outer' = [outer EXCEPT ![id] = Gather(Len(order))]
              /\ IF Gather(Len(order)).state = "pending"
                   THEN /\ pc' = [pc EXCEPT ![id] = "joining"]
                        /\ UNCHANGED << error, sent >>
                   ELSE AfterGather(id, Gather(Len(order)))
  /\ RegistriesRead(msgs[id].device_id)
  /\ UNCHANGED << msgs, regs, reordered, log >>

\* Lines 53-65: async_get_integration completes; the task returns None or
\* calls the listing operation of the platform and awaits it.
FetchResolved(id, i) ==
  /\ fetch[id][i].pc = "resolving"
  /\ LET domain == fetch[id][i].domain
         fname == HandlerFName(msgs[id].type)
         what == FetchOutcome(domain, fname)
         tasks == CASE what.do = "call" ->
                         [fetch[id] EXCEPT ![i].pc = "listing"]
                    [] what.do = "raise" ->
                         [fetch[id] EXCEPT ![i].pc = "raised",
                                           ![i].exc = what.exc]
                    [] OTHER ->
                         [fetch[id] EXCEPT ![i].pc = "returned",
                                           ![i].result = None]
     IN
     /\ fetch' = [fetch EXCEPT ![id] = tasks]
     /\ log' = IF what.warn THEN log (+) SetToBag({domain}) ELSE log
     /\ calls' = IF what.do = "call"
                   THEN calls \cup
                          { [op |-> fname, id |-> id, entry |-> "",
                             task |-> i, domain |-> domain,
                             device_id |-> msgs[id].device_id] }
                   ELSE calls
     /\ outer' = IF what.do = "call" THEN outer
                 ELSE [outer EXCEPT ![id] = GatherCallback(@, tasks, i)]
     /\ reordered' = IF what.do = "call" THEN reordered
                     ELSE [reordered EXCEPT ![id] = @ \/ Overtakes(fetch[id], i)]
  /\ UNCHANGED << env, pc, regs, error, sent >>

\* Variant of FetchListed: a gather that has failed cancels the fetches
\* still running, so their listing operations never complete.
FetchListedCancelled(id, i) ==
  /\ fetch[id][i].pc = "listing"
  /\ outer[id].state # "exception"
  /\ LET call == CHOOSE c \in calls :
                   c.id = id /\ c.task = i /\ c.op \in FNames
         listing == PluginListing(call.domain, call.op, call.device_id)
         tasks == IF listing.raises
                    THEN [fetch[id] EXCEPT ![i].pc = "raised",
                                           ![i].exc = listing.exc]
                    ELSE [fetch[id] EXCEPT ![i].pc = "returned",
                                           ![i].result = listing.value]
     IN
     /\ fetch' = [fetch EXCEPT ![id] = tasks]
     /\ outer' = [outer EXCEPT ![id] = GatherCallback(@, tasks, i)]
     /\ reordered' = [reordered EXCEPT ![id] = @ \/ Overtakes(fetch[id], i)]
  /\ UNCHANGED << env, pc, regs, error, sent, log, calls >>

\* Line 65: the listing operation of the platform returns or raises.
FetchListed(id, i) ==
  /\ fetch[id][i].pc = "listing"
  /\ LET call == CHOOSE c \in calls :
                   c.id = id /\ c.task = i /\ c.op \in FNames
         listing == PluginListing(call.domain, call.op, call.device_id)
         tasks == IF listing.raises
                    THEN [fetch[id] EXCEPT ![i].pc = "raised",
                                           ![i].exc = listing.exc]
                    ELSE [fetch[id] EXCEPT ![i].pc = "returned",
                                           ![i].result = listing.value]
     IN
     /\ fetch' = [fetch EXCEPT ![id] = tasks]
     /\ outer' = [outer EXCEPT ![id] = GatherCallback(@, tasks, i)]
     /\ reordered' = [reordered EXCEPT ![id] = @ \/ Overtakes(fetch[id], i)]
  /\ UNCHANGED << env, pc, regs, error, sent, log, calls >>

\* Lines 86-96 and 110: the handler resumes from the second gather.
Resume(id) ==
  /\ pc[id] = "joining"
  /\ outer[id].state # "pending"
  /\ AfterGather(id, outer[id])
  /\ UNCHANGED << env, regs, fetch, outer, reordered, log, calls >>

\* websocket_api.async_response: an exception of the handler is turned
\* into one error message for the command.
HandleException(id) ==
  /\ pc[id] = "raised"
  /\ pc' = [pc EXCEPT ![id] = "error_sent"]
  /\ sent' = [sent EXCEPT ![id] = Append(@, ErrorMessage(id, error[id]))]
  /\ UNCHANGED << env, regs, fetch, outer, reordered, error, log, calls >>

Next ==
  \/ \E id \in Ids : HandlerStart(id)
  \/ \E id \in Ids, which \in {"device_registry", "entity_registry"} :
       RegistryLoaded(id, which)
  \/ \E id \in Ids : FanOut(id)
  \/ \E id \in Ids : \E i \in 1..Len(fetch[id]) : FetchResolved(id, i)
  \/ \E id \in Ids : \E i \in 1..Len(fetch[id]) : FetchListed(id, i)
  \/ \E id \in Ids : Resume(id)
  \/ \E id \in Ids : HandleException(id)

Spec == Init /\ [][Next]_vars

\* The event loop runs every callback that is ready, and the registries,
\* the loader and the listing operations complete the calls made to them:
\* a step that can be taken is taken in the end.
\* One command in flight, of any kind and for any device: the commands
\* share no state that a handler reads, so the progress of a command does
\* not depend on the others.
InitOne ==
  /\ device_registry = InitDeviceRegistry
  /\ entity_registry = InitEntityRegistry
  /\ config_entries = InitConfigEntries
  /\ msgs \in [{1} -> [type : CommandTypes, device_id : DeviceIds]]
  /\ pc = [id \in Ids |-> "received"]
  /\ regs = [id \in Ids |-> {}]
  /\ fetch = [id \in Ids |-> << >>]
  /\ outer = [id \in Ids |-> Pending]
  /\ reordered = [id \in Ids |-> FALSE]
  /\ error = [id \in Ids |-> ""]
  /\ sent = [id \in Ids |-> << >>]
  /\ log = EmptyBag
  /\ calls = {}

FairSpec == InitOne /\ [][Next]_vars /\ WF_vars(Next)

\* Two commands in flight at the same time, each for one of two devices.
PairDevices == {"D4", "D5"}

InitPair ==
  /\ device_registry = InitDeviceRegistry
  /\ entity_registry = InitEntityRegistry
  /\ config_entries = InitConfigEntries
  /\ msgs \in [{1, 2} -> [type : CommandTypes, device_id : PairDevices]]
  /\ pc = [id \in Ids |-> "received"]
  /\ regs = [id \in Ids |-> {}]
  /\ fetch = [id \in Ids |-> << >>]
  /\ outer = [id \in Ids |-> Pending]
  /\ reordered = [id \in Ids |-> FALSE]
  /\ error = [id \in Ids |-> ""]
  /\ sent = [id \in Ids |-> << >>]
  /\ log = EmptyBag
  /\ calls = {}

SpecPair == InitPair /\ [][Next]_vars

(***************************************************************************)
(* Vocabulary of the properties                                            *)
(***************************************************************************)
FNameOf(id) == HandlerFName(msgs[id].type)

DeviceOf(id) == msgs[id].device_id

Known(id) == DeviceOf(id) \in DOMAIN device_registry

\* The handler is past the fan-out of a device that is registered.
FannedOut(id) == Known(id) /\ pc[id] \notin {"received", "registries"}

Failed(id) == pc[id] \in {"raised", "error_sent"}

\* The domains the registries relate to a device.
RelevantDomains(device_id) ==
  { config_entries[e].domain : e \in device_registry[device_id].config_entries }
    \cup
  { entry.entity_id[1] :
      entry \in {x \in entity_registry : x.device_id = device_id} }

Absorbed(domain) == Loader(domain) \in {"IntegrationNotFound", "ImportError"}

\* What a domain contributes to a list: the list its listing operation
\* returns, and nothing when it has no such operation.
Contribution(domain, fname, device_id) ==
  IF Loader(domain) = "platform" /\ fname \in PlatformAttrs(domain)
       /\ ~PluginListing(domain, fname, device_id).raises
    THEN PluginListing(domain, fname, device_id).value.items
    ELSE << >>

PluginRaises(domain, fname, device_id) ==
  Loader(domain) = "platform" /\ fname \in PlatformAttrs(domain)
    /\ PluginListing(domain, fname, device_id).raises

\* The contributions of the fetched domains, in fan-out order.
RECURSIVE Contributions(_, _, _)
Contributions(tasks, fname, device_id) ==
  IF tasks = << >> THEN << >>
  ELSE Contribution(Head(tasks).domain, fname, device_id)
         \o Contributions(Tail(tasks), fname, device_id)

\* The tasks without those of the absorbed domains.
RECURSIVE WithoutAbsorbed(_)
WithoutAbsorbed(tasks) ==
  IF tasks = << >> THEN << >>
  ELSE (IF Absorbed(Head(tasks).domain) THEN << >> ELSE << Head(tasks) >>)
         \o WithoutAbsorbed(Tail(tasks))

SeqToBag(s) ==
  [x \in Range(s) |-> Cardinality({i \in 1..Len(s) : s[i] = x})]

ListingCalls(id) == {c \in calls : c.id = id /\ c.op \in FNames}

ResolutionCalls(id) ==
  {c \in calls : c.id = id /\ c.op = "async_get_integration"}

EntryLookups(id) == {c \in calls : c.id = id /\ c.op = "async_get_entry"}

ResultsSent(id) == {k \in 1..Len(sent[id]) : sent[id][k].success}

(***************************************************************************)
(* Properties                                                              *)
(***************************************************************************)
\* C1: a domain whose integration is not found, or has no device_automation
\* platform, never makes the list fail: its fetch returns None without
\* raising, a failure of the command is the exception of another domain's
\* listing operation, and the list sent is the concatenation of the other
\* domains' contributions, as if the domain had contributed nothing.
C1_AbsentDomainsAbsorbed ==
  \A id \in Ids :
    \A i \in 1..Len(fetch[id]) :
      Absorbed(fetch[id][i].domain) =>
        /\ fetch[id][i].pc \in {"resolving", "returned"}
        /\ fetch[id][i].pc = "returned" => fetch[id][i].result = None
        /\ Failed(id) =>
             \E j \in 1..Len(fetch[id]) :
               /\ j # i
               /\ fetch[id][j].pc = "raised"
               /\ error[id] = fetch[id][j].exc
               /\ PluginRaises(fetch[id][j].domain, FNameOf(id), DeviceOf(id))
        /\ pc[id] = "done" =>
             sent[id] = << ResultMessage(id,
                             Contributions(WithoutAbsorbed(fetch[id]),
                                           FNameOf(id), DeviceOf(id))) >>

\* A list was sent for a device with an absorbed domain and another domain
\* that contributed descriptors.
C1_Witness ==
  \E id \in Ids :
    /\ pc[id] = "done"
    /\ \E i \in 1..Len(fetch[id]) : Loader(fetch[id][i].domain) = "IntegrationNotFound"
    /\ Len(sent[id]) = 1 /\ sent[id][1].success /\ Len(sent[id][1].result) > 0

\* C2: for a device id that is not in the device registry the command fails
\* with DeviceNotFound, and no config entry is looked up, no integration is
\* resolved and no listing operation is called.
C2_UnknownDeviceFailsWithDeviceNotFound ==
  \A id \in Ids :
    ~Known(id) =>
      /\ pc[id] # "done"
      /\ Failed(id) => error[id] = "DeviceNotFound"
      /\ EntryLookups(id) = {} /\ ResolutionCalls(id) = {} /\ ListingCalls(id) = {}

\* C3: when a listing operation raises, the command ends in that error:
\* the gather holds an exception, the handler raises it, send_result is
\* never called and no list is sent, whatever the other domains returned.
C3_PluginErrorFailsRequest ==
  \A id \in Ids :
    (\E i \in 1..Len(fetch[id]) : fetch[id][i].pc = "raised") =>
      /\ outer[id].state = "exception"
      /\ pc[id] \in {"joining", "raised", "error_sent"}
      /\ ResultsSent(id) = {}
      /\ Failed(id) =>
           \E i \in 1..Len(fetch[id]) :
             fetch[id][i].pc = "raised" /\ error[id] = fetch[id][i].exc

\* The handler raised although another domain had returned descriptors.
C3_Witness ==
  \E id \in Ids :
    /\ pc[id] = "raised"
    /\ \E i \in 1..Len(fetch[id]) : fetch[id][i].pc = "raised"
    /\ \E j \in 1..Len(fetch[id]) :
         fetch[id][j].pc = "returned" /\ Len(fetch[id][j].result.items) > 0

\* C4 as stated: the handler neither returns nor raises before the fetch
\* of every domain has completed.
C4_FullJoinBarrier ==
  \A id \in Ids :
    (FannedOut(id) /\ pc[id] # "joining") =>
      \A i \in 1..Len(fetch[id]) : Finished(fetch[id][i])

\* C4 amended: a list is returned only after the fetch of every domain has
\* returned; the handler leaves the join earlier only by raising the
\* exception of a fetch that has raised.
C4_JoinBeforeReturn ==
  \A id \in Ids :
    /\ pc[id] = "done" =>
         \A i \in 1..Len(fetch[id]) : fetch[id][i].pc = "returned"
    /\ (FannedOut(id) /\ pc[id] # "joining") =>
         \/ \A i \in 1..Len(fetch[id]) : Finished(fetch[id][i])
         \/ /\ Failed(id)
            /\ \E i \in 1..Len(fetch[id]) :
                 fetch[id][i].pc = "raised" /\ error[id] = fetch[id][i].exc

\* The handler has raised while the fetch of another domain is still running.
C4_Witness ==
  \E id \in Ids :
    /\ pc[id] = "raised"
    /\ \E i \in 1..Len(fetch[id]) : ~Finished(fetch[id][i])

\* The bag of the contributions of a set of domains.
RECURSIVE ContributionBag(_, _, _)
ContributionBag(domains, fname, device_id) ==
  IF domains = {} THEN EmptyBag
  ELSE LET d == CHOOSE x \in domains : TRUE IN
       SeqToBag(Contribution(d, fname, device_id))
         (+) ContributionBag(domains \ {d}, fname, device_id)

\* C5: whatever the order in which the fetches end, a list that is sent
\* holds, as a multiset, the contributions of the domains of the device,
\* and a list is sent only if no listing operation of these domains raises.
C5_OrderIndependentMultiset ==
  \A id \in Ids :
    pc[id] = "done" =>
      /\ Len(sent[id]) = 1
      /\ SeqToBag(sent[id][1].result) =
           ContributionBag(RelevantDomains(DeviceOf(id)), FNameOf(id), DeviceOf(id))
      /\ \A d \in RelevantDomains(DeviceOf(id)) :
           ~PluginRaises(d, FNameOf(id), DeviceOf(id))

\* A list of three or more descriptors was sent after the fetches ended in
\* an order that is not the fan-out order.
C5_Witness ==
  \E id \in Ids :
    /\ pc[id] = "done"
    /\ Len(sent[id][1].result) >= 3
    /\ reordered[id]

\* C6: each domain of the device has one fetch task, is resolved once and
\* has its listing operation called at most once per command, however many
\* config entries and entities of the device name it.
C6_OneFetchPerDomain ==
  \A id \in Ids :
    /\ \A i, j \in 1..Len(fetch[id]) :
         fetch[id][i].domain = fetch[id][j].domain => i = j
    /\ \A c1, c2 \in ListingCalls(id) : c1.domain = c2.domain => c1 = c2
    /\ \A c1, c2 \in ResolutionCalls(id) : c1.domain = c2.domain => c1 = c2
    /\ FannedOut(id) =>
         \A d \in RelevantDomains(DeviceOf(id)) :
           /\ \E i \in 1..Len(fetch[id]) : fetch[id][i].domain = d
           /\ \E c \in ResolutionCalls(id) : c.domain = d

\* The listing operation was called for a domain that two config entries
\* and an entity of the device name.
C6_Witness ==
  \E id \in Ids :
    \E c \in ListingCalls(id) :
      /\ Cardinality({e \in device_registry[DeviceOf(id)].config_entries :
                        config_entries[e].domain = c.domain}) >= 2
      /\ \E entry \in entity_registry :
           entry.device_id = DeviceOf(id) /\ entry.entity_id[1] = c.domain

\* C7: the domains fetched are exactly the domains of the config entries of
\* the device and the parts before the first "." of its entity ids.  For
\* device D (entries of alarm and light, entity sensor.outside_temp) they are
\* alarm, light and sensor, and the trigger list sent is the one trigger of
\* light.
C7_DomainsAreTheUnion ==
  \A id \in Ids :
    /\ FannedOut(id) =>
         /\ {fetch[id][i].domain : i \in 1..Len(fetch[id])}
              = RelevantDomains(DeviceOf(id))
         /\ {c.domain : c \in ResolutionCalls(id)} = RelevantDomains(DeviceOf(id))
    /\ \A c \in ListingCalls(id) :
         Known(id) /\ c.domain \in RelevantDomains(DeviceOf(id))
    /\ msgs[id] = [type |-> "device_automation/trigger/list", device_id |-> "D"] =>
         /\ ~Failed(id)
         /\ FannedOut(id) =>
              {fetch[id][i].domain : i \in 1..Len(fetch[id])}
                = {"alarm", "light", "sensor"}
         /\ pc[id] = "done" =>
              sent[id] = << ResultMessage(id, << Desc("light", "D", "turned_on") >>) >>

\* The trigger list of device D was sent.
C7_Witness ==
  \E id \in Ids :
    /\ msgs[id] = [type |-> "device_automation/trigger/list", device_id |-> "D"]
    /\ pc[id] = "done"
    /\ Len(sent[id]) = 1

\* C8: for a registered device with no config entry and no entity the
\* command sends the empty list; it raises nothing, resolves no integration
\* and calls no listing operation.
C8_NoDomainsEmptyList ==
  \A id \in Ids :
    (Known(id) /\ RelevantDomains(DeviceOf(id)) = {}) =>
      /\ ~Failed(id)
      /\ fetch[id] = << >>
      /\ ResolutionCalls(id) = {} /\ ListingCalls(id) = {}
      /\ pc[id] \in {"received", "registries", "done"}
      /\ pc[id] = "done" => sent[id] = << ResultMessage(id, << >>) >>

\* The empty list was sent for a device without domains.
C8_Witness ==
  \E id \in Ids :
    /\ Known(id) /\ RelevantDomains(DeviceOf(id)) = {}
    /\ pc[id] = "done"
    /\ Len(sent[id]) = 1 /\ sent[id][1].result = << >>

\* C9: a command gets at most one message, and exactly one once its handler
\* has ended: a result holding the contributions of all the domains of the
\* device when the handler returned, an error when it raised; a handler
\* that waits at the join without a message still has a fetch running.
C9_ExactlyOneResponse ==
  \A id \in Ids :
    /\ Len(sent[id]) <= 1
    /\ Len(sent[id]) = 1 <=> pc[id] \in {"done", "error_sent"}
    /\ pc[id] = "done" =>
         /\ sent[id][1] = ResultMessage(id,
              Contributions(fetch[id], FNameOf(id), DeviceOf(id)))
         /\ \A i \in 1..Len(fetch[id]) : fetch[id][i].pc = "returned"
    /\ pc[id] = "error_sent" =>
         /\ ~sent[id][1].success
         /\ sent[id][1].id = id
         /\ sent[id][1].error = error[id] /\ error[id] # ""
    /\ (pc[id] = "joining" /\ outer[id].state = "pending") =>
         \E i \in 1..Len(fetch[id]) : ~Finished(fetch[id][i])

\* The one message of a command is an error although a domain of the device
\* had returned descriptors.
C9_Witness ==
  \E id \in Ids :
    /\ pc[id] = "error_sent"
    /\ Len(sent[id]) = 1 /\ ~sent[id][1].success
    /\ \E j \in 1..Len(fetch[id]) :
         fetch[id][j].pc = "returned" /\ Len(fetch[id][j].result.items) > 0

\* C10: the list sent is the concatenation of the lists the listing
\* operations returned, domain after domain in the order of the fan-out and
\* each list in its own order, whatever the order in which the fetches ended.
C10_ConcatenationInFanOutOrder ==
  \A id \in Ids :
    pc[id] = "done" =>
      /\ Len(sent[id]) = 1
      /\ sent[id][1].result = Contributions(fetch[id], FNameOf(id), DeviceOf(id))

\* A list with the descriptors of two domains was sent, and the fetch of the
\* second of them ended before the fetch of the first.
C10_Witness ==
  \E id \in Ids :
    /\ pc[id] = "done"
    /\ Len(fetch[id]) = 2
    /\ Len(fetch[id][1].result.items) > 0
    /\ Len(fetch[id][2].result.items) > 0
    /\ reordered[id]

\* A platform that was loaded but has no listing operation of the kind asked.
LacksOperation(domain, fname) ==
  Loader(domain) = "platform" /\ fname \notin PlatformAttrs(domain)

\* C11: the fetch of a domain whose platform has no listing operation of the
\* kind asked returns None and calls no operation of that platform; a
\* failure of the command is the exception of another domain, and the list
\* sent is the concatenation of the contributions of the other domains.
C11_MissingOperationIsAbsent ==
  \A id \in Ids :
    \A i \in 1..Len(fetch[id]) :
      LacksOperation(fetch[id][i].domain, FNameOf(id)) =>
        /\ fetch[id][i].pc \in {"resolving", "returned"}
        /\ fetch[id][i].pc = "returned" => fetch[id][i].result = None
        /\ \A c \in ListingCalls(id) : c.domain # fetch[id][i].domain
        /\ Failed(id) =>
             \E j \in 1..Len(fetch[id]) :
               j # i /\ fetch[id][j].pc = "raised" /\ error[id] = fetch[id][j].exc
        /\ pc[id] = "done" =>
             sent[id] = << ResultMessage(id,
               Contributions(
                 SelectSeq(fetch[id],
                           LAMBDA t : t.domain # fetch[id][i].domain),
                 FNameOf(id), DeviceOf(id))) >>

\* A list with descriptors was sent for a device one of whose platforms has
\* no listing operation of the kind asked.
C11_Witness ==
  \E id \in Ids :
    /\ pc[id] = "done"
    /\ \E i \in 1..Len(fetch[id]) :
         /\ LacksOperation(fetch[id][i].domain, FNameOf(id))
         /\ fetch[id][i].result = None
    /\ Len(sent[id]) = 1 /\ Len(sent[id][1].result) > 0

\* C12: two commands of the same kind for the same device, with the
\* registries, the config entries and the platforms unchanged, end alike:
\* if one sends a list the other does not fail, and the two lists sent are
\* equal as multisets.
C12_SameCommandSameMultiset ==
  \A id1, id2 \in Ids :
    (id1 # id2 /\ msgs[id1] = msgs[id2]) =>
      /\ ~(pc[id1] = "done" /\ Failed(id2))
      /\ (pc[id1] = "done" /\ pc[id2] = "done") =>
           SeqToBag(sent[id1][1].result) = SeqToBag(sent[id2][1].result)

\* Two commands of the same kind for the same device have each sent a list
\* of descriptors of two domains.
C12_Witness ==
  \E id1, id2 \in Ids :
    /\ id1 # id2 /\ msgs[id1] = msgs[id2]
    /\ pc[id1] = "done" /\ pc[id2] = "done"
    /\ Len(sent[id1][1].result) >= 2
    /\ \E x, y \in Range(sent[id2][1].result) : x.domain # y.domain

\* The most fetch tasks a command can have: one per domain there is.
TaskSlots ==
  1..Cardinality({InitConfigEntries[e].domain : e \in DOMAIN InitConfigEntries}
                   \cup {x.entity_id[1] : x \in InitEntityRegistry})

\* Fetch i of command id has ended as its own code ends: a domain with a
\* listing operation had it called, and the fetch holds what it returned or
\* raised.
RanToCompletion(id, i) ==
  LET task == fetch[id][i] IN
  /\ Finished(task)
  /\ (Loader(task.domain) = "platform"
        /\ FNameOf(id) \in PlatformAttrs(task.domain)) =>
       LET listing == PluginListing(task.domain, FNameOf(id), DeviceOf(id)) IN
       /\ \E c \in ListingCalls(id) : c.task = i /\ c.domain = task.domain
       /\ IF listing.raises
            THEN task.pc = "raised" /\ task.exc = listing.exc
            ELSE task.pc = "returned" /\ task.result = listing.value

\* C13: once the gather of a command holds the exception of a fetch, every
\* fetch of that command that is still running goes on and ends with what
\* its own listing operation returns or raises; none is cancelled.
C13_PeersRunToCompletion ==
  \A id \in {1} : \A i \in TaskSlots :
    (/\ id \in Ids
     /\ i <= Len(fetch[id])
     /\ outer[id].state = "exception"
     /\ ~Finished(fetch[id][i]))
      ~> (id \in Ids /\ i <= Len(fetch[id]) /\ RanToCompletion(id, i))

\* The first fetch of a command raised before the second one ended, and the
\* second one has returned the descriptors of its listing operation.
C13_Witness ==
  \E id \in Ids :
    /\ Len(fetch[id]) = 2
    /\ fetch[id][1].pc = "raised"
    /\ fetch[id][2].pc = "returned"
    /\ Len(fetch[id][2].result.items) > 0
    /\ ~reordered[id]
    /\ RanToCompletion(id, 2)

\* The bag of the descriptors that the listing operations of a set of calls
\* returned.
RECURSIVE ReturnedBag(_)
ReturnedBag(cs) ==
  IF cs = {} THEN EmptyBag
  ELSE LET c == CHOOSE x \in cs : TRUE IN
       SeqToBag(PluginListing(c.domain, c.op, c.device_id).value.items)
         (+) ReturnedBag(cs \ {c})

\* C14: the list sent holds, as a multiset, the descriptors that the listing
\* operations called for the command returned, each as often as it was
\* returned and no other; every one of these calls returned.
C14_ResultIsSumOfListings ==
  \A id \in Ids :
    pc[id] = "done" =>
      /\ Len(sent[id]) = 1 /\ sent[id][1].success
      /\ \A c \in ListingCalls(id) :
           /\ ~PluginListing(c.domain, c.op, c.device_id).raises
           /\ fetch[id][c.task].pc = "returned"
           /\ fetch[id][c.task].result
                = PluginListing(c.domain, c.op, c.device_id).value
      /\ SeqToBag(sent[id][1].result) = ReturnedBag(ListingCalls(id))

\* A list was sent that holds a descriptor twice and the descriptors of one
\* listing call only, for a device with a domain that returned None.
C14_Witness ==
  \E id \in Ids :
    /\ pc[id] = "done"
    /\ Cardinality(ListingCalls(id)) = 1
    /\ \E i \in 1..Len(fetch[id]) : fetch[id][i].result = None
    /\ \E k, l \in 1..Len(sent[id][1].result) :
         k # l /\ sent[id][1].result[k] = sent[id][1].result[l]

\* The listing operation of each kind of list, as the plugin contract names
\* them.
OperationOfKind ==
  [x \in CommandTypes |->
     IF x = "device_automation/action/list" THEN "async_get_actions"
     ELSE IF x = "device_automation/condition/list" THEN "async_get_conditions"
     ELSE "async_get_triggers"]

\* C15: a listing operation is called only for a domain of the device of
\* the command, only by a fetch that has resolved the integration of that
\* domain and loaded its platform, only the operation of the kind of the
\* command, which the platform has, and only with the device id of the
\* command.
C15_ListingCallsAreTheRequests ==
  \A id \in Ids :
    LET domains == RelevantDomains(DeviceOf(id))
        resolved == ResolutionCalls(id)
    IN
    \A c \in ListingCalls(id) :
      /\ Known(id) /\ c.domain \in domains
      /\ c.task \in 1..Len(fetch[id])
      /\ fetch[id][c.task].domain = c.domain
      /\ fetch[id][c.task].pc # "resolving"
      /\ \E r \in resolved : r.task = c.task /\ r.domain = c.domain
      /\ Loader(c.domain) = "platform"
      /\ c.op = OperationOfKind[msgs[id].type]
      /\ c.op \in PlatformAttrs(c.domain)
      /\ c.device_id = msgs[id].device_id

\* The condition operation of a platform was called, for a device that also
\* has a domain whose platform has no condition operation and a domain
\* without platform.
C15_Witness ==
  \E id \in Ids :
    /\ msgs[id].type = "device_automation/condition/list"
    /\ \E c \in ListingCalls(id) :
         c.op = "async_get_conditions" /\ c.device_id = msgs[id].device_id
    /\ \E i \in 1..Len(fetch[id]) :
         LacksOperation(fetch[id][i].domain, "async_get_conditions")
    /\ \E i \in 1..Len(fetch[id]) : Loader(fetch[id][i].domain) = "ImportError"

\* C16: a command for a registered device is answered in the end: its
\* handler returns and the list is sent, or it raises the exception of a
\* fetch to the websocket API; it does not wait once the gather is done.
C16_RequestIsAnswered ==
  \A id \in {1} :
    (id \in Ids /\ pc[id] = "received" /\ Known(id))
      ~> (/\ id \in Ids
          /\ \/ pc[id] = "done" /\ ResultsSent(id) # {}
             \/ Failed(id) /\ outer[id].state = "exception")

\* The list of a device with three domains was sent after the fetches ended
\* in an order that is not the order of the fan-out.
C16_Witness ==
  \E id \in Ids :
    /\ pc[id] = "done" /\ ResultsSent(id) # {}
    /\ Len(fetch[id]) = 3
    /\ reordered[id]

\* C17: with two commands in flight, every message of a command carries the
\* id of that command, and a list that is sent holds the descriptors that
\* the listing calls of that command returned, for its device and of its
\* kind, and nothing of the other command.
C17_ResponsesAreTheirOwn ==
  \A id \in Ids :
    /\ \A c \in ListingCalls(id) :
         c.device_id = msgs[id].device_id /\ c.op = OperationOfKind[msgs[id].type]
    /\ \A k \in 1..Len(sent[id]) :
         /\ sent[id][k].id = id
         /\ sent[id][k].success =>
              /\ SeqToBag(sent[id][k].result) = ReturnedBag(ListingCalls(id))
              /\ sent[id][k].result
                   = Contributions(fetch[id], OperationOfKind[msgs[id].type],
                                   msgs[id].device_id)
              /\ \A x \in Range(sent[id][k].result) :
                   x.device_id = msgs[id].device_id

\* Two commands of different kinds for different devices have each been sent
\* a list of descriptors, and the two lists have no descriptor in common.
C17_Witness ==
  \E id1, id2 \in Ids :
    /\ msgs[id1].device_id # msgs[id2].device_id
    /\ msgs[id1].type # msgs[id2].type
    /\ pc[id1] = "done" /\ pc[id2] = "done"
    /\ Len(sent[id1][1].result) > 0 /\ Len(sent[id2][1].result) > 0
    /\ Range(sent[id1][1].result) \cap Range(sent[id2][1].result) = {}

\* The fetches whose resolution of the integration has raised
\* IntegrationNotFound.
NotFoundFetches ==
  { p \in Ids \X TaskSlots :
      /\ p[2] <= Len(fetch[p[1]])
      /\ Loader(fetch[p[1]][p[2]].domain) = "IntegrationNotFound"
      /\ fetch[p[1]][p[2]].pc # "resolving" }

\* C18: the log holds one warning, naming the domain, for each fetch whose
\* resolution raised IntegrationNotFound, and no other entry: a domain
\* without platform or without the operation asked for is not logged.
C18_WarningIffIntegrationNotFound ==
  /\ \A d \in BagToSet(log) : Loader(d) = "IntegrationNotFound"
  /\ \A d \in {fetch[p[1]][p[2]].domain : p \in NotFoundFetches} \cup BagToSet(log) :
       CopiesIn(d, log)
         = Cardinality({p \in NotFoundFetches : fetch[p[1]][p[2]].domain = d})

\* A command has ended with one warning in the log, for the one domain of
\* its device whose integration is not found.
C18_Witness ==
  \E id \in Ids :
    /\ pc[id] \in {"done", "error_sent"}
    /\ Len(fetch[id]) >= 2
    /\ \E i \in 1..Len(fetch[id]) :
         /\ Loader(fetch[id][i].domain) = "IntegrationNotFound"
         /\ CopiesIn(fetch[id][i].domain, log) = 1
    /\ BagCardinality(log) = 1

\* C19: when the first fetch of a command exists, both registries have been
\* obtained, the device has been looked up, every config entry of the device
\* has been looked up and the fetches are those of all the domains of its
\* config entries and entities; and a list is sent only when both registries
\* were obtained and every fetch has returned.
C19_DomainsThenFetchesThenResult ==
  \A id \in Ids :
    /\ (fetch[id] # << >> \/ ResolutionCalls(id) # {} \/ ListingCalls(id) # {}) =>
         /\ regs[id] = {"device_registry", "entity_registry"}
         /\ Known(id)
         /\ {c.entry : c \in EntryLookups(id)}
              = device_registry[DeviceOf(id)].config_entries
         /\ LET domains == RelevantDomains(DeviceOf(id)) IN
            /\ {fetch[id][i].domain : i \in 1..Len(fetch[id])} = domains
            /\ {c.domain : c \in ResolutionCalls(id)} = domains
    /\ EntryLookups(id) # {} => regs[id] = {"device_registry", "entity_registry"}
    /\ ResultsSent(id) # {} =>
         /\ regs[id] = {"device_registry", "entity_registry"}
         /\ Known(id)
         /\ Len(fetch[id]) = Cardinality(RelevantDomains(DeviceOf(id)))
         /\ \A i \in 1..Len(fetch[id]) : fetch[id][i].pc = "returned"
         /\ \A c \in ResolutionCalls(id) : fetch[id][c.task].pc = "returned"

\* A list was sent for a device with two config entries and an entity of a
\* third domain, after three fetches.
C19_Witness ==
  \E id \in Ids :
    /\ ResultsSent(id) # {}
    /\ Cardinality(EntryLookups(id)) = 2
    /\ Cardinality(ResolutionCalls(id)) = 3
    /\ \E i \in 1..Len(fetch[id]) :
         \A c \in EntryLookups(id) : c.domain # fetch[id][i].domain

\* C20: no step of a command, whether it ends with a list or with an error,
\* changes the device registry, the entity registry or the config entries.
C20_RegistriesNotChanged ==
  [][/\ device_registry' = device_registry
     /\ entity_registry' = entity_registry
     /\ config_entries' = config_entries]_vars

\* A command that looked up the config entries of its device and called a
\* listing operation has ended with an error, and the registries and the
\* config entries are as they were.
C20_Witness ==
  \E id \in Ids :
    /\ pc[id] = "error_sent"
    /\ EntryLookups(id) # {} /\ ListingCalls(id) # {}
    /\ device_registry = InitDeviceRegistry
    /\ entity_registry = InitEntityRegistry
    /\ config_entries = InitConfigEntries

====
